---- MODULE Spec2Model ----
(***************************************************************************)
(* A model of the Watchtower JS SDK (src/unnamed/part_001, watchtower.js): *)
(* the Watchtower facade, one WatchtowerClient with its policy cache and   *)
(* its _policyRefreshPromise handle, and the asynchronous calls            *)
(* refreshPolicy, checkText and checkImageJpeg in flight on it.            *)
(*                                                                         *)
(* JavaScript runs each handler to its next await in one piece, so an      *)
(* action is one such piece: the synchronous start of a call, the          *)
(* settling of a network attempt with everything that runs up to the next  *)
(* suspension, the continuation after an awaited promise.  fetch() and the *)
(* res.json() that follows it are one network attempt: nothing is written  *)
(* between the two awaits.                                                 *)
(*                                                                         *)
(* Numbers are in hundredths (0.85 is 85).  Times are milliseconds.        *)
(***************************************************************************)
EXTENDS Integers, Sequences, FiniteSets, TLC

\* ------------------------------------------------------------ bounds
\* Calls (refreshPolicy, checkText, checkImageJpeg) made on the client when
\* each is followed to its end (Spec).
MaxCalls == 1
\* Calls made on the client when each is followed until it has its policy
\* (StoreSpec).
MaxStoreCalls == 3
\* The same, where the store is checked for what eventually happens
\* (FairStoreSpec).
MaxFairCalls == 2
\* Milliseconds the clock advances.
MaxTicks == 1
\* Calls made on the client when image checks run beside refreshes
\* (SnapshotSpec).
MaxSnapshotCalls == 2
\* Deadlines made by withTimeout when it is followed on its own
\* (TimeoutSpec).
MaxTimeouts == 2
\* Checks made on the client when the endpoints answer with any body
\* (ResponseSpec).
MaxResponseCalls == 1

\* ------------------------------------------------------- JavaScript values
\* A JSON / JavaScript value: its typeof tag and its payload.
JsBool(b) == [t |-> "boolean", b |-> b, n |-> 0]
JsNum(n) == [t |-> "number", b |-> FALSE, n |-> n]
JsUndefined == [t |-> "undefined", b |-> FALSE, n |-> 0]
JsNull == [t |-> "null", b |-> FALSE, n |-> 0]
JsNaN == [t |-> "NaN", b |-> FALSE, n |-> 0]
\* A non-empty string that is not a number ("yes").
JsString == [t |-> "string", b |-> FALSE, n |-> 0]

\* x ?? d
Nullish(x, d) == IF x.t \in {"undefined", "null"} THEN d ELSE x

\* Number(x), for the values above
ToNumber(x) ==
  CASE x.t = "number" -> x
    [] x.t = "boolean" -> JsNum(IF x.b THEN 100 ELSE 0)
    [] x.t = "null" -> JsNum(0)
    [] OTHER -> JsNaN

\* Whether x is truthy
Truthy(x) ==
  CASE x.t = "boolean" -> x.b
    [] x.t = "number" -> x.n # 0
    [] x.t = "string" -> TRUE
    [] OTHER -> FALSE

\* ------------------------------------------------------------ configuration
\* Values of config.policyRefreshSeconds the model draws from.
RefreshSecondsChoices == {0, 1}

\* Milliseconds in a second.
MsPerSecond == 1000
\* Date.now() when the model starts: with policyRefreshSeconds 1 the default
\* policy is then exactly at the end of its freshness window.
StartNow == 1 * MsPerSecond

\* ------------------------------------------------------------------ policy
\* A default policy whose nsfwThreshold is 0.95.
DEFAULT_POLICY_Lenient ==
  [ snap |-> 0,
    blockToxicity |-> JsBool(TRUE),
    blockSexual |-> JsBool(TRUE),
    blockNsfwImages |-> JsBool(TRUE),
    toxicityThreshold |-> JsNum(85),
    sexualThreshold |-> JsNum(85),
    nsfwThreshold |-> JsNum(95) ]

DEFAULT_POLICY ==
  [ snap |-> 0,
    blockToxicity |-> JsBool(TRUE),
    blockSexual |-> JsBool(TRUE),
    blockNsfwImages |-> JsBool(TRUE),
    toxicityThreshold |-> JsNum(85),
    sexualThreshold |-> JsNum(85),
    nsfwThreshold |-> JsNum(85) ]

\* The place of a policy in a call that holds none yet.
NoPolicy == [DEFAULT_POLICY EXCEPT !.snap = -1]

\* Bodies the policy endpoint answers with: the mock route's and a relaxed
\* policy.
PolicyRouteBody ==
  [ blockToxicity |-> JsBool(TRUE),
    blockSexual |-> JsBool(TRUE),
    blockNsfwImages |-> JsBool(TRUE),
    toxicityThreshold |-> JsNum(85),
    sexualThreshold |-> JsNum(90),
    nsfwThreshold |-> JsNum(85) ]

PolicyBodies ==
  { PolicyRouteBody,
    [PolicyRouteBody EXCEPT !.blockNsfwImages = JsBool(FALSE),
                            !.nsfwThreshold = JsNum(50)] }

\* A coercion whose flags default to false.
CoercePolicyDefaultsOff(json, snap) ==
  [ snap |-> snap,
    blockToxicity |-> Nullish(json.blockToxicity, JsBool(FALSE)),
    blockSexual |-> Nullish(json.blockSexual, JsBool(FALSE)),
    blockNsfwImages |-> Nullish(json.blockNsfwImages, JsBool(FALSE)),
    toxicityThreshold |-> ToNumber(Nullish(json.toxicityThreshold, JsNum(85))),
    sexualThreshold |-> ToNumber(Nullish(json.sexualThreshold, JsNum(85))),
    nsfwThreshold |-> ToNumber(Nullish(json.nsfwThreshold, JsNum(85))) ]

\* The policy object refreshPolicy builds from a parsed body; snap names the
\* object (the refresh that built it).
CoercePolicy(json, snap) ==
  [ snap |-> snap,
    blockToxicity |-> Nullish(json.blockToxicity, JsBool(TRUE)),
    blockSexual |-> Nullish(json.blockSexual, JsBool(TRUE)),
    blockNsfwImages |-> Nullish(json.blockNsfwImages, JsBool(TRUE)),
    toxicityThreshold |-> ToNumber(Nullish(json.toxicityThreshold, JsNum(85))),
    sexualThreshold |-> ToNumber(Nullish(json.sexualThreshold, JsNum(85))),
    nsfwThreshold |-> ToNumber(Nullish(json.nsfwThreshold, JsNum(85))) ]

\* ------------------------------------------------------------ network
\* How a network attempt ends: fetch rejects ("transport"), the deadline
\* timer of withTimeout fires and aborts it ("timeout"), the response is
\* not res.ok ("non2xx"), res.json() rejects ("unparseable"), or the body
\* parses ("ok").
FailureKinds == {"transport", "timeout", "non2xx", "unparseable"}
\* The ends in which the attempt's code throws.
Threw(kind) == kind \in {"transport", "timeout", "unparseable"}

PolicyOutcomesOf(bodies) ==
  {[kind |-> k, body |-> PolicyRouteBody] : k \in FailureKinds}
    \cup {[kind |-> "ok", body |-> b] : b \in bodies}
PolicyOutcomes == PolicyOutcomesOf(PolicyBodies)

\* Bodies of the text endpoint: the isTextPermitted field.
TextBodies == {JsBool(TRUE), JsBool(FALSE)}
TextOutcomes ==
  {[kind |-> k, body |-> JsUndefined] : k \in FailureKinds}
    \cup {[kind |-> "ok", body |-> b] : b \in TextBodies}

\* Bodies of the image endpoint.  decision "" is a missing (falsy) decision;
\* reasons.isArray is Array.isArray(json.reasons).
ImageBodies ==
  { [decision |-> "ALLOW", nsfwScore |-> JsNum(90),
     reasons |-> [isArray |-> TRUE, items |-> << >>]],
    [decision |-> "BLOCK", nsfwScore |-> JsNum(10),
     reasons |-> [isArray |-> TRUE, items |-> <<"mock_nsfw_detected">>]] }
NoImageBody ==
  [decision |-> "", nsfwScore |-> JsNull,
   reasons |-> [isArray |-> FALSE, items |-> << >>]]
ImageOutcomes ==
  {[kind |-> k, body |-> NoImageBody] : k \in FailureKinds}
    \cup {[kind |-> "ok", body |-> b] : b \in ImageBodies}

\* Bodies a policy endpoint can answer with besides: fields missing (a
\* stricter threshold, 0.9), and fields of the wrong type or out of range.
PolicyResponseBodies ==
  PolicyBodies \cup
  { [ blockToxicity |-> JsUndefined,
      blockSexual |-> JsUndefined,
      blockNsfwImages |-> JsUndefined,
      toxicityThreshold |-> JsUndefined,
      sexualThreshold |-> JsUndefined,
      nsfwThreshold |-> JsNum(90) ],
    [ blockToxicity |-> JsBool(TRUE),
      blockSexual |-> JsNull,
      blockNsfwImages |-> JsString,
      toxicityThreshold |-> JsNum(150),
      sexualThreshold |-> JsBool(TRUE),
      nsfwThreshold |-> JsString ] }

\* Values of isTextPermitted a text endpoint can answer with: a boolean,
\* none (or a body that is no object), null, a number, a string.
TextResponseBodies ==
  TextBodies \cup {JsUndefined, JsNull, JsNum(0), JsString}
TextResponseOutcomes ==
  {[kind |-> k, body |-> JsUndefined] : k \in FailureKinds}
    \cup {[kind |-> "ok", body |-> b] : b \in TextResponseBodies}

\* Bodies an image endpoint can answer with: a decision that is ALLOW, BLOCK,
\* another truthy value ("FLAG") or missing; a score below or above the
\* default threshold, or one that is no number; reasons that are an array,
\* and one body whose reasons are not.
ImageResponseBodies ==
  { [decision |-> d, nsfwScore |-> n,
     reasons |-> [isArray |-> TRUE, items |-> <<"remote_a", "remote_b">>]] :
      d \in {"ALLOW", "BLOCK", "FLAG", ""},
      n \in {JsNum(10), JsNum(90), JsString} }
  \cup { [decision |-> "ALLOW", nsfwScore |-> JsNum(90),
          reasons |-> [isArray |-> FALSE, items |-> << >>]] }
ImageResponseOutcomes ==
  {[kind |-> k, body |-> NoImageBody] : k \in FailureKinds}
    \cup {[kind |-> "ok", body |-> b] : b \in ImageResponseBodies}

\* How the telemetry attempt ends; emitEvent never reads the response.
EventOutcomes == {"response", "transport", "timeout"}

\* A cleanup() at the end of the try block instead of in finally: it is
\* skipped when the attempt throws.
TimerAfterNoFinally(kind) ==
  CASE kind = "timeout" -> "fired"
    [] kind \in {"transport", "unparseable"} -> "pending"
    [] OTHER -> "cleared"

\* The timer of withTimeout once its attempt has ended: the finally block
\* runs cleanup(); a timer that fired is no longer pending either.
TimerAfter(kind) == IF kind = "timeout" THEN "fired" ELSE "cleared"
\* The same for the telemetry attempt, whose end the model does not tell apart.
EventTimerAfter(kind) == "released"

\* A safeApiCall that logs and rethrows.
safeApiCallRethrows(defaultResult, threw, value) ==
  [raised |-> threw, value |-> IF threw THEN defaultResult ELSE value]

\* safeApiCall(label, defaultResult, fn): fn's value, or defaultResult when
\* fn threw; it raises nothing itself.
safeApiCall(defaultResult, threw, value) ==
  [raised |-> FALSE, value |-> IF threw THEN defaultResult ELSE value]

\* How a promise settles that an async function returns.
Settled(s) == IF s.raised THEN "rejected" ELSE "resolved"

\* ------------------------------------------------------------------ inputs
\* What checkImageJpeg is given; "string" is none of the three byte types.
ImageInputs == {"Uint8Array", "string"}
\* toUint8Array(data) throws for anything else.
toUint8ArrayThrows(data) == data \notin {"Uint8Array", "ArrayBuffer", "Blob"}

\* ----------------------------------------------------------------- results
ImageFallback ==
  [decision |-> "ALLOW", nsfwScore |-> JsNull,
   reasons |-> <<"sdk_network_error">>]
CloudUnavailable ==
  [decision |-> "ALLOW", nsfwScore |-> JsNull,
   reasons |-> <<"cloud_unavailable">>]
\* The place of an image result in a call that has none.
NoImage == [decision |-> "", nsfwScore |-> JsNull, reasons |-> << >>]

\* a >= b on JavaScript numbers (false when either is NaN)
GreaterEq(a, b) == a.t = "number" /\ b.t = "number" /\ a.n >= b.n

\* A local enforcement that blocks only above the threshold.
applyPolicyAboveThreshold(result, policy) ==
  IF /\ Truthy(policy.blockNsfwImages)
     /\ result.nsfwScore.t = "number"
     /\ GreaterEq(result.nsfwScore, policy.nsfwThreshold)
     /\ result.nsfwScore # policy.nsfwThreshold
  THEN [result EXCEPT !.decision = "BLOCK",
                      !.reasons = Append(@, "policy_nsfw")]
  ELSE result

\* A local enforcement that decides by the threshold alone.
applyPolicyDecidesAlone(result, policy) ==
  IF /\ Truthy(policy.blockNsfwImages)
     /\ result.nsfwScore.t = "number"
     /\ GreaterEq(result.nsfwScore, policy.nsfwThreshold)
  THEN [result EXCEPT !.decision = "BLOCK",
                      !.reasons = Append(@, "policy_nsfw")]
  ELSE [result EXCEPT !.decision = "ALLOW"]

\* client._applyPolicyToImageResult(result, policy)
applyPolicyToImageResult(result, policy) ==
  IF /\ Truthy(policy.blockNsfwImages)
     /\ result.nsfwScore.t = "number"
     /\ GreaterEq(result.nsfwScore, policy.nsfwThreshold)
  THEN [result EXCEPT !.decision = "BLOCK",
                      !.reasons = Append(@, "policy_nsfw")]
  ELSE result

\* ------------------------------------------------------------------- state
VARIABLES
  client,               \* the facade's client: FALSE is null
  config,               \* client.config
  cachedPolicy,         \* client.cachedPolicy
  policyLastFetchMs,    \* client.policyLastFetchMs
  policyRefreshPromise, \* client._policyRefreshPromise: a refresh, 0 is null
  now,                  \* Date.now()
  refreshes,            \* the promises safeApiCall("refreshPolicy") made
  calls,                \* the calls made on the client, in order
  raised,               \* facade methods that threw "not initialized"
  sent,                 \* requests issued so far, by endpoint
  timeouts              \* the deadlines withTimeout made, followed on their own

\* The client, its calls and its requests.
clientVars ==
  << client, config, cachedPolicy, policyLastFetchMs, policyRefreshPromise,
     now, refreshes, calls, raised, sent >>

vars ==
  << client, config, cachedPolicy, policyLastFetchMs, policyRefreshPromise,
     now, refreshes, calls, raised, sent, timeouts >>

DEFAULT_CONFIG == [policyRefreshSeconds |-> 60, sendEvents |-> TRUE]

\* A call as it is made.
NewCall(kind, input) ==
  [ kind |-> kind,          \* "refresh", "text" or "image"
    input |-> input,        \* the jpeg argument's type (image)
    pc |-> "start",         \* "policy", "ready", "remote", "resolved", "rejected"
    stale |-> FALSE,        \* _getPolicyMaybeRefresh found the policy stale
    saw |-> policyRefreshPromise, \* _policyRefreshPromise when the call is made
    ref |-> 0,              \* the refresh promise the call awaits
    creator |-> FALSE,      \* the call made that promise
    policy |-> NoPolicy,    \* the policy the call obtained
    timer |-> "none",       \* the deadline timer of its classification request
    outcome |-> "none",     \* how its classification request ended
    textJson |-> JsUndefined, \* json.isTextPermitted of a parsed text response
    imageJson |-> NoImageBody, \* json of a parsed image response
    text |-> JsUndefined,   \* what checkText resolved to
    image |-> NoImage,      \* what checkImageJpeg resolved to
    enforced |-> FALSE,     \* _applyPolicyToImageResult ran
    tele |-> "none",        \* emitEvent: "pending", then "settled"
    teleDecision |-> "",    \* the decision emitEvent was given
    teleScore |-> JsUndefined, \* the nsfwScore emitEvent was given (image)
    teleTimer |-> "none" ]  \* the deadline timer of the telemetry request

Init ==
  /\ client = FALSE
  /\ config = DEFAULT_CONFIG
  /\ cachedPolicy = DEFAULT_POLICY
  /\ policyLastFetchMs = 0
  /\ policyRefreshPromise = 0
  /\ now = StartNow
  /\ refreshes = << >>
  /\ calls = << >>
  /\ raised = {}
  /\ sent = [policy |-> 0, text |-> 0, image |-> 0, events |-> 0]
  /\ timeouts = << >>

\* ------------------------------------------------------------------ facade
\* Watchtower.init(apiKey, config): new WatchtowerClient.  The model follows
\* one client; a second init would build a second, independent one.
WatchtowerInit(seconds, events) ==
  /\ client = FALSE
  /\ client' = TRUE
  /\ config' = [policyRefreshSeconds |-> seconds, sendEvents |-> events]
  /\ cachedPolicy' = DEFAULT_POLICY
  /\ policyLastFetchMs' = 0
  /\ policyRefreshPromise' = 0
  /\ UNCHANGED <<timeouts, now, refreshes, calls, raised, sent>>

\* A _requireClient that lets the call through.
requireClientNeverThrows == FALSE

\* _requireClient(): throws when client is null.
requireClientThrows == client = FALSE

\* refreshPolicy when it returns the promise in flight.
attachRefresh(call) ==
  /\ calls' = Append(calls, [call EXCEPT !.ref = policyRefreshPromise,
                                         !.pc = "policy"])
  /\ UNCHANGED <<refreshes, policyRefreshPromise, sent>>

\* refreshPolicy when it makes the promise: safeApiCall runs fn up to its
\* fetch at once, with the cached policy as the default result.
startRefresh(call) ==
  LET r == Len(refreshes) + 1 IN
  /\ refreshes' = Append(refreshes,
       [ state |-> "pending",      \* then "resolved" (or "rejected")
         fallback |-> cachedPolicy, \* safeApiCall's defaultResult
         value |-> NoPolicy,       \* what the promise resolved to
         timer |-> "pending",      \* the deadline timer of the request
         outcome |-> "none",       \* how the request ended
         json |-> PolicyRouteBody, \* the body, once one has parsed
         \* the cache as it was when the refresh started
         before |-> [policy |-> cachedPolicy, ms |-> policyLastFetchMs] ])
  /\ policyRefreshPromise' = r
  /\ sent' = [sent EXCEPT !.policy = @ + 1]
  /\ calls' = Append(calls, [call EXCEPT !.ref = r, !.creator = TRUE,
                                         !.pc = "policy"])

\* A refreshPolicy that never looks at the promise in flight.
refreshPolicyNoHandleCheck(call) == startRefresh(call)

\* A refreshPolicy that shares the promise among checks only: a direct call
\* always fetches.
refreshPolicyDirectBypass(call) ==
  IF policyRefreshPromise # 0 /\ call.kind # "refresh"
  THEN attachRefresh(call)
  ELSE startRefresh(call)

\* client.refreshPolicy() up to its await.
refreshPolicy(call) ==
  IF policyRefreshPromise # 0
  THEN attachRefresh(call)
  ELSE startRefresh(call)

\* A freshness check that refreshes at the end of the window already.
getPolicyMaybeRefreshAtAge(call) ==
  LET ageMs == now - policyLastFetchMs IN
  IF ageMs >= config.policyRefreshSeconds * MsPerSecond
  THEN refreshPolicy([call EXCEPT !.stale = TRUE])
  ELSE /\ calls' = Append(calls, [call EXCEPT !.policy = cachedPolicy,
                                              !.pc = "ready"])
       /\ UNCHANGED <<refreshes, policyRefreshPromise, sent>>

\* client._getPolicyMaybeRefresh()
getPolicyMaybeRefresh(call) ==
  LET ageMs == now - policyLastFetchMs IN
  IF ageMs > config.policyRefreshSeconds * MsPerSecond
  THEN refreshPolicy([call EXCEPT !.stale = TRUE])
  ELSE /\ calls' = Append(calls, [call EXCEPT !.policy = cachedPolicy,
                                              !.pc = "ready"])
       /\ UNCHANGED <<refreshes, policyRefreshPromise, sent>>

\* Watchtower.refreshPolicy()
WatchtowerRefreshPolicy ==
  /\ IF requireClientThrows
     THEN /\ raised' = raised \cup {"refresh"}
          /\ UNCHANGED <<refreshes, policyRefreshPromise, sent, calls>>
     ELSE /\ refreshPolicy(NewCall("refresh", "none"))
          /\ UNCHANGED raised
  /\ UNCHANGED <<timeouts, client, config, cachedPolicy, policyLastFetchMs, now>>

\* Watchtower.checkText(text, meta), up to the await of the policy
WatchtowerCheckText ==
  /\ IF requireClientThrows
     THEN /\ raised' = raised \cup {"text"}
          /\ UNCHANGED <<refreshes, policyRefreshPromise, sent, calls>>
     ELSE /\ getPolicyMaybeRefresh(NewCall("text", "none"))
          /\ UNCHANGED raised
  /\ UNCHANGED <<timeouts, client, config, cachedPolicy, policyLastFetchMs, now>>

\* Watchtower.checkImageJpeg(jpeg, meta), up to the await of the policy
WatchtowerCheckImageJpeg(jpeg) ==
  /\ IF requireClientThrows
     THEN /\ raised' = raised \cup {"image"}
          /\ UNCHANGED <<refreshes, policyRefreshPromise, sent, calls>>
     ELSE /\ getPolicyMaybeRefresh(NewCall("image", jpeg))
          /\ UNCHANGED raised
  /\ UNCHANGED <<timeouts, client, config, cachedPolicy, policyLastFetchMs, now>>

\* ----------------------------------------------------------------- refresh
\* A refresh that stamps the fetch time whatever the response.
refreshFnStampsFailure(o, r) ==
  LET policy == CoercePolicy(o.body, r) IN
  [ threw |-> Threw(o.kind),
    value |-> IF o.kind = "ok" THEN policy ELSE cachedPolicy,
    cachedPolicy |-> IF o.kind = "ok" THEN policy ELSE cachedPolicy,
    policyLastFetchMs |-> IF Threw(o.kind) THEN policyLastFetchMs ELSE now ]

\* A refresh that returns nothing on a non-2xx answer.
refreshFnFailureReturnsNothing(o, r) ==
  LET policy == CoercePolicy(o.body, r) IN
  [ threw |-> Threw(o.kind),
    value |-> IF o.kind = "ok" THEN policy ELSE NoPolicy,
    cachedPolicy |-> IF o.kind = "ok" THEN policy ELSE cachedPolicy,
    policyLastFetchMs |-> IF o.kind = "ok" THEN now ELSE policyLastFetchMs ]

\* The function refreshPolicy hands to safeApiCall, from the end of its
\* fetch on: whether it threw, what it returned, and the cache it leaves.
refreshFn(o, r) ==
  LET policy == CoercePolicy(o.body, r) IN
  [ threw |-> Threw(o.kind),
    value |-> IF o.kind = "ok" THEN policy ELSE cachedPolicy,
    cachedPolicy |-> IF o.kind = "ok" THEN policy ELSE cachedPolicy,
    policyLastFetchMs |-> IF o.kind = "ok" THEN now ELSE policyLastFetchMs ]

\* The policy request of refresh r ends: fn runs to its end, cleanup()
\* included, and the promise of safeApiCall settles.
PolicyFetchSettles(r, o) ==
  /\ r \in 1..Len(refreshes)
  /\ refreshes[r].state = "pending"
  /\ LET f == refreshFn(o, r)
         s == safeApiCall(refreshes[r].fallback, f.threw, f.value)
     IN
     /\ cachedPolicy' = f.cachedPolicy
     /\ policyLastFetchMs' = f.policyLastFetchMs
     /\ refreshes' = [refreshes EXCEPT ![r] =
          [@ EXCEPT !.state = Settled(s),
                    !.value = s.value,
                    !.timer = TimerAfter(o.kind),
                    !.json = IF o.kind = "ok" THEN o.body ELSE @,
                    !.outcome = o.kind]]
  /\ UNCHANGED <<timeouts, client, config, policyRefreshPromise, now, calls, raised, sent>>

\* A refreshPolicy that clears the handle only where the fetch succeeded.
refreshFinallyOnSuccess(creator) ==
  IF creator /\ refreshes[policyRefreshPromise].outcome = "ok"
  THEN 0 ELSE policyRefreshPromise

\* A refreshPolicy whose every caller clears the handle when it resumes.
refreshFinallyAnyCaller(creator) == 0

\* What the finally block of refreshPolicy leaves in _policyRefreshPromise.
refreshFinally(creator) == IF creator THEN 0 ELSE policyRefreshPromise

\* The default result of the safeApiCall that wraps a check.
CheckDefault(call) ==
  [call EXCEPT !.text = IF call.kind = "text" THEN JsBool(TRUE) ELSE @,
               !.image = IF call.kind = "image" THEN ImageFallback ELSE @]

\* Call c resumes after the refresh promise it awaits has settled: the
\* maker of the promise clears the handle; refreshPolicy settles as the
\* promise did, a check goes on to its classification request (a rejection
\* would be one more failure for its own safeApiCall).
PolicyAwaited(c) ==
  /\ c \in 1..Len(calls)
  /\ calls[c].pc = "policy"
  /\ refreshes[calls[c].ref].state # "pending"
  /\ policyRefreshPromise' = refreshFinally(calls[c].creator)
  /\ LET p == refreshes[calls[c].ref]
         s == safeApiCall(TRUE, TRUE, TRUE)
     IN
     calls' = [calls EXCEPT ![c] =
       CASE calls[c].kind = "refresh" ->
              [@ EXCEPT !.policy = p.value, !.pc = p.state]
         [] calls[c].kind # "refresh" /\ p.state = "resolved" ->
              [@ EXCEPT !.policy = p.value, !.pc = "ready"]
         [] OTHER ->
              [CheckDefault(@) EXCEPT !.pc = Settled(s),
                                      !.outcome = "policy"]]
  /\ UNCHANGED <<timeouts, client, config, cachedPolicy, policyLastFetchMs, now,
                 refreshes, raised, sent>>

\* ------------------------------------------------------------------ checks
\* checkText after the policy: the classification request is issued.
TextRequest(c) ==
  /\ c \in 1..Len(calls)
  /\ calls[c].kind = "text"
  /\ calls[c].pc = "ready"
  /\ calls' = [calls EXCEPT ![c] = [@ EXCEPT !.pc = "remote",
                                             !.timer = "pending"]]
  /\ sent' = [sent EXCEPT !.text = @ + 1]
  /\ UNCHANGED <<timeouts, client, config, cachedPolicy, policyLastFetchMs,
                 policyRefreshPromise, now, refreshes, raised>>

\* checkImageJpeg after the policy: toUint8Array, then the request; a throw
\* of toUint8Array is inside the function safeApiCall runs.
ImageRequest(c) ==
  /\ c \in 1..Len(calls)
  /\ calls[c].kind = "image"
  /\ calls[c].pc = "ready"
  /\ IF toUint8ArrayThrows(calls[c].input)
     THEN /\ LET s == safeApiCall(ImageFallback, TRUE, NoImage) IN
             calls' = [calls EXCEPT ![c] =
               [@ EXCEPT !.pc = Settled(s),
                         !.outcome = "unsupported",
                         !.image = s.value]]
          /\ UNCHANGED sent
     ELSE /\ calls' = [calls EXCEPT ![c] = [@ EXCEPT !.pc = "remote",
                                                    !.timer = "pending"]]
          /\ sent' = [sent EXCEPT !.image = @ + 1]
  /\ UNCHANGED <<timeouts, client, config, cachedPolicy, policyLastFetchMs,
                 policyRefreshPromise, now, refreshes, raised>>

\* A checkText that takes a non-2xx answer for a refusal.
checkTextFnStatusBlocks(o) ==
  LET isTextPermitted == Nullish(o.body, JsBool(TRUE)) IN
  [ threw |-> Threw(o.kind),
    value |-> IF o.kind = "ok" THEN isTextPermitted ELSE JsBool(FALSE),
    event |-> IF o.kind = "ok" /\ config.sendEvents
              THEN (IF Truthy(isTextPermitted) THEN "ALLOW" ELSE "BLOCK")
              ELSE "" ]

\* The function checkText hands to safeApiCall, from the end of its fetch on:
\* whether it threw, what it returned, and the event it emitted ("" is none).
checkTextFn(o) ==
  LET isTextPermitted == Nullish(o.body, JsBool(TRUE)) IN
  [ threw |-> Threw(o.kind),
    value |-> IF o.kind = "ok" THEN isTextPermitted ELSE JsBool(TRUE),
    event |-> IF o.kind = "ok" /\ config.sendEvents
              THEN (IF Truthy(isTextPermitted) THEN "ALLOW" ELSE "BLOCK")
              ELSE "" ]

\* A checkImageJpeg that throws on a non-2xx answer instead of returning.
checkImageFnStatusThrows(o, policy) ==
  LET json == o.body
      nsfwScore == IF json.nsfwScore.t = "number" THEN json.nsfwScore ELSE JsNull
      reasons == IF json.reasons.isArray THEN json.reasons.items ELSE << >>
      decision == IF json.decision # "" THEN json.decision ELSE "ALLOW"
      result == [decision |-> decision, nsfwScore |-> nsfwScore,
                 reasons |-> reasons]
  IN
  [ threw |-> o.kind # "ok",
    value |-> applyPolicyToImageResult(result, policy),
    enforced |-> o.kind = "ok",
    event |-> IF o.kind = "ok" /\ config.sendEvents THEN decision ELSE "",
    eventScore |-> nsfwScore ]

\* A checkImageJpeg that emits its event after local enforcement, with the
\* decision it resolves to.
checkImageFnEmitsFinal(o, policy) ==
  LET json == o.body
      nsfwScore == IF json.nsfwScore.t = "number" THEN json.nsfwScore ELSE JsNull
      reasons == IF json.reasons.isArray THEN json.reasons.items ELSE << >>
      decision == IF json.decision # "" THEN json.decision ELSE "ALLOW"
      result == [decision |-> decision, nsfwScore |-> nsfwScore,
                 reasons |-> reasons]
      final == applyPolicyToImageResult(result, policy)
  IN
  [ threw |-> Threw(o.kind),
    value |-> IF o.kind = "ok" THEN final ELSE CloudUnavailable,
    enforced |-> o.kind = "ok",
    event |-> IF o.kind = "ok" /\ config.sendEvents
              THEN final.decision ELSE "",
    eventScore |-> nsfwScore ]

\* A checkImageJpeg that enforces the policy cached when the answer comes.
checkImageFnReadsCache(o, policy) ==
  LET json == o.body
      nsfwScore == IF json.nsfwScore.t = "number" THEN json.nsfwScore ELSE JsNull
      reasons == IF json.reasons.isArray THEN json.reasons.items ELSE << >>
      decision == IF json.decision # "" THEN json.decision ELSE "ALLOW"
      result == [decision |-> decision, nsfwScore |-> nsfwScore,
                 reasons |-> reasons]
  IN
  [ threw |-> Threw(o.kind),
    value |-> IF o.kind = "ok"
              THEN applyPolicyToImageResult(result, cachedPolicy)
              ELSE CloudUnavailable,
    enforced |-> o.kind = "ok",
    event |-> IF o.kind = "ok" /\ config.sendEvents THEN decision ELSE "",
    eventScore |-> nsfwScore ]

\* The function checkImageJpeg hands to safeApiCall, likewise.
checkImageFn(o, policy) ==
  LET json == o.body
      nsfwScore == IF json.nsfwScore.t = "number" THEN json.nsfwScore ELSE JsNull
      reasons == IF json.reasons.isArray THEN json.reasons.items ELSE << >>
      decision == IF json.decision # "" THEN json.decision ELSE "ALLOW"
      result == [decision |-> decision, nsfwScore |-> nsfwScore,
                 reasons |-> reasons]
  IN
  [ threw |-> Threw(o.kind),
    value |-> IF o.kind = "ok" THEN applyPolicyToImageResult(result, policy)
              ELSE CloudUnavailable,
    enforced |-> o.kind = "ok",
    event |-> IF o.kind = "ok" /\ config.sendEvents THEN decision ELSE "",
    eventScore |-> nsfwScore ]

\* An emitEvent that the check awaits: the check stays suspended on it.
EmittedAwaited(call, d) ==
  IF d = "" THEN call
  ELSE [call EXCEPT !.tele = "pending", !.teleDecision = d,
                    !.teleTimer = "pending", !.pc = "telemetry"]

\* What a call's record becomes when emitEvent is called with decision d
\* (it issues its request at once), or is not called (d = "").
Emitted(call, d) ==
  IF d = "" THEN call
  ELSE [call EXCEPT !.tele = "pending", !.teleDecision = d,
                    !.teleTimer = "pending"]

\* A checkText that issues its request again when the request failed.
TextSettlesRetries(c, o) ==
  /\ c \in 1..Len(calls)
  /\ calls[c].kind = "text"
  /\ calls[c].pc = "remote"
  /\ LET f == checkTextFn(o)
         s == safeApiCall(JsBool(TRUE), f.threw, f.value)
     IN
     IF f.threw /\ sent.text < 2
     THEN /\ calls' = [calls EXCEPT ![c] =
               [@ EXCEPT !.timer = "pending", !.outcome = o.kind]]
          /\ sent' = [sent EXCEPT !.text = @ + 1]
     ELSE /\ calls' = [calls EXCEPT ![c] =
               Emitted([@ EXCEPT !.pc = Settled(s),
                                 !.timer = TimerAfter(o.kind),
                                 !.outcome = o.kind,
                                 !.textJson = IF o.kind = "ok" THEN o.body ELSE @,
                                 !.text = s.value],
                       IF f.threw THEN "" ELSE f.event)]
          /\ sent' = [sent EXCEPT !.events =
                        IF ~f.threw /\ f.event # "" THEN @ + 1 ELSE @]
  /\ UNCHANGED <<timeouts, client, config, cachedPolicy, policyLastFetchMs,
                 policyRefreshPromise, now, refreshes, raised>>

\* The classification request of checkText call c ends; checkText resolves.
TextSettles(c, o) ==
  /\ c \in 1..Len(calls)
  /\ calls[c].kind = "text"
  /\ calls[c].pc = "remote"
  /\ LET f == checkTextFn(o)
         s == safeApiCall(JsBool(TRUE), f.threw, f.value)
     IN
     /\ calls' = [calls EXCEPT ![c] =
          Emitted([@ EXCEPT !.pc = Settled(s),
                            !.timer = TimerAfter(o.kind),
                            !.outcome = o.kind,
                            !.textJson = IF o.kind = "ok" THEN o.body ELSE @,
                            !.text = s.value],
                  IF f.threw THEN "" ELSE f.event)]
     /\ sent' = [sent EXCEPT !.events =
                   IF ~f.threw /\ f.event # "" THEN @ + 1 ELSE @]
  /\ UNCHANGED <<timeouts, client, config, cachedPolicy, policyLastFetchMs,
                 policyRefreshPromise, now, refreshes, raised>>

\* The classification request of checkImageJpeg call c ends; it resolves.
ImageSettles(c, o) ==
  /\ c \in 1..Len(calls)
  /\ calls[c].kind = "image"
  /\ calls[c].pc = "remote"
  /\ LET f == checkImageFn(o, calls[c].policy)
         s == safeApiCall(ImageFallback, f.threw, f.value)
     IN
     /\ calls' = [calls EXCEPT ![c] =
          Emitted([@ EXCEPT !.pc = Settled(s),
                            !.timer = TimerAfter(o.kind),
                            !.outcome = o.kind,
                            !.imageJson = IF o.kind = "ok" THEN o.body ELSE @,
                            !.enforced = ~f.threw /\ f.enforced,
                            !.teleScore =
                               IF ~f.threw /\ f.event # ""
                               THEN f.eventScore ELSE @,
                            !.image = s.value],
                  IF f.threw THEN "" ELSE f.event)]
     /\ sent' = [sent EXCEPT !.events =
                   IF ~f.threw /\ f.event # "" THEN @ + 1 ELSE @]
  /\ UNCHANGED <<timeouts, client, config, cachedPolicy, policyLastFetchMs,
                 policyRefreshPromise, now, refreshes, raised>>

\* An emitEvent whose failure reaches the check that emitted it.
EventSettlesSurfaces(c, o) ==
  /\ c \in 1..Len(calls)
  /\ calls[c].tele = "pending"
  /\ calls' = [calls EXCEPT ![c] =
       IF o = "response"
       THEN [@ EXCEPT !.tele = "settled", !.teleTimer = EventTimerAfter(o)]
       ELSE [CheckDefault(@) EXCEPT !.tele = "settled",
                                    !.teleTimer = EventTimerAfter(o)]]
  /\ UNCHANGED <<timeouts, client, config, cachedPolicy, policyLastFetchMs,
                 policyRefreshPromise, now, refreshes, raised, sent>>

\* The telemetry request of call c ends; safeApiCall swallows a failure.
EventSettles(c, o) ==
  /\ c \in 1..Len(calls)
  /\ calls[c].tele = "pending"
  /\ calls' = [calls EXCEPT ![c] = [@ EXCEPT !.tele = "settled",
                                             !.teleTimer = EventTimerAfter(o)]]
  /\ UNCHANGED <<timeouts, client, config, cachedPolicy, policyLastFetchMs,
                 policyRefreshPromise, now, refreshes, raised, sent>>

\* ------------------------------------------------------------------- clock
\* A millisecond passes.
Tick ==
  /\ now - StartNow < MaxTicks
  /\ now' = now + 1
  /\ UNCHANGED <<timeouts, client, config, cachedPolicy, policyLastFetchMs,
                 policyRefreshPromise, refreshes, calls, raised, sent>>

\* ------------------------------------------------------------- withTimeout
\* The deadlines (ms) withTimeout is called with, in milliseconds.
TimeoutMsChoices == {1, 2}
\* The signal argument: none, one that is not aborted, one that is.
ExternalSignals == {"none", "live", "aborted"}

\* controller.abort(reason): the first abort sets the reason, later ones do
\* nothing.
abort(t, reason) ==
  IF t.aborted THEN t ELSE [t EXCEPT !.aborted = TRUE, !.reason = reason]

\* withTimeout(ms, signal): a controller, a timer of ms, and the signal
\* either followed at once (already aborted) or listened to.
withTimeout(ms, signal) ==
  /\ Len(timeouts) < MaxTimeouts
  /\ LET t == [ ms |-> ms,
                elapsed |-> 0,          \* milliseconds since the call
                timer |-> "pending",    \* then "fired" or "cleared"
                aborted |-> FALSE,      \* controller.signal.aborted
                reason |-> "none",      \* "timeout" or "external"
                external |-> signal,
                listening |-> signal = "live",
                cleaned |-> FALSE ]     \* cleanup() has been called
     IN timeouts' = Append(timeouts,
                      IF signal = "aborted" THEN abort(t, "external") ELSE t)
  /\ UNCHANGED clientVars

\* A millisecond of the deadline of timeout i passes.
TimePasses(i) ==
  /\ timeouts[i].elapsed < timeouts[i].ms
  /\ timeouts' = [timeouts EXCEPT ![i] = [@ EXCEPT !.elapsed = @ + 1]]
  /\ UNCHANGED clientVars

\* The timer of timeout i fires: controller.abort(new Error("timeout")).
DeadlineFires(i) ==
  /\ timeouts[i].timer = "pending"
  /\ timeouts[i].elapsed >= timeouts[i].ms
  /\ timeouts' = [timeouts EXCEPT ![i] =
       [abort(timeouts[i], "timeout") EXCEPT !.timer = "fired"]]
  /\ UNCHANGED clientVars

\* The signal given to timeout i aborts: its listener, added once, aborts
\* the controller.
ExternalAborts(i) ==
  /\ timeouts[i].external = "live"
  /\ timeouts' = [timeouts EXCEPT ![i] =
       [ (IF timeouts[i].listening THEN abort(timeouts[i], "external")
          ELSE timeouts[i])
         EXCEPT !.external = "aborted", !.listening = FALSE ]]
  /\ UNCHANGED clientVars

\* A cleanup that does not clear the timer.
cleanupKeepsTimer(i) ==
  /\ ~timeouts[i].cleaned
  /\ timeouts' = [timeouts EXCEPT ![i] = [@ EXCEPT !.cleaned = TRUE]]
  /\ UNCHANGED clientVars

\* cleanup() of timeout i: clearTimeout(t).
cleanup(i) ==
  /\ ~timeouts[i].cleaned
  /\ timeouts' = [timeouts EXCEPT ![i] =
       [@ EXCEPT !.cleaned = TRUE,
                 !.timer = IF @ = "pending" THEN "cleared" ELSE @]]
  /\ UNCHANGED clientVars

\* ----------------------------------------------------------- specification
\* The steps the policy store takes on its own: the policy request ends (by
\* a response, a failure or the deadline timer) and the awaiting calls resume.
StoreProgress(outcomes) ==
  \/ \E r \in 1..Len(refreshes), o \in outcomes : PolicyFetchSettles(r, o)
  \/ \E c \in 1..Len(calls) : PolicyAwaited(c)

\* The steps a check takes on its own once it has its policy.
CheckProgress ==
  \/ \E c \in 1..Len(calls) : TextRequest(c)
  \/ \E c \in 1..Len(calls) : ImageRequest(c)
  \/ \E c \in 1..Len(calls), o \in TextOutcomes : TextSettles(c, o)
  \/ \E c \in 1..Len(calls), o \in ImageOutcomes : ImageSettles(c, o)
  \/ \E c \in 1..Len(calls), o \in EventOutcomes : EventSettles(c, o)

\* Every call followed to its end, within one millisecond of the clock:
\* policyRefreshSeconds 1 makes the cache fresh from the start, 0 makes it
\* stale until a refresh succeeds.
Next ==
  \/ \E s \in RefreshSecondsChoices, e \in BOOLEAN : WatchtowerInit(s, e)
  \/ Len(calls) < MaxCalls /\ WatchtowerRefreshPolicy
  \/ Len(calls) < MaxCalls /\ WatchtowerCheckText
  \/ \E jpeg \in ImageInputs : Len(calls) < MaxCalls /\ WatchtowerCheckImageJpeg(jpeg)
  \/ StoreProgress(PolicyOutcomes)
  \/ CheckProgress

Spec == Init /\ [][Next]_vars

\* Every pending network attempt ends and every continuation runs.
FairSpec ==
  Spec /\ WF_vars(StoreProgress(PolicyOutcomes)) /\ WF_vars(CheckProgress)

\* The policy store under concurrent calls of refreshPolicy and checkText:
\* each call is followed until it has its policy.  What a check does
\* afterwards does not touch the store.
StoreNext ==
  \/ \E s \in RefreshSecondsChoices : WatchtowerInit(s, TRUE)
  \/ Len(calls) < MaxStoreCalls /\ WatchtowerRefreshPolicy
  \/ Len(calls) < MaxStoreCalls /\ WatchtowerCheckText
  \/ Tick
  \/ StoreProgress(PolicyOutcomesOf({PolicyRouteBody}))

StoreSpec == Init /\ [][StoreNext]_vars

\* The same with fewer calls, and with every pending policy request ending
\* and every continuation running.
FairStoreNext ==
  \/ \E s \in RefreshSecondsChoices : WatchtowerInit(s, TRUE)
  \/ Len(calls) < MaxFairCalls /\ WatchtowerRefreshPolicy
  \/ Len(calls) < MaxFairCalls /\ WatchtowerCheckText
  \/ Tick
  \/ StoreProgress(PolicyOutcomesOf({PolicyRouteBody}))

FairStoreSpec ==
  /\ Init
  /\ [][FairStoreNext]_vars
  /\ WF_vars(StoreProgress(PolicyOutcomesOf({PolicyRouteBody})))

\* One check at a time against endpoints that answer with any body, well
\* formed or not.
ResponseNext ==
  \/ \E s \in RefreshSecondsChoices, e \in BOOLEAN : WatchtowerInit(s, e)
  \/ Len(calls) < MaxResponseCalls /\ WatchtowerCheckText
  \/ \E jpeg \in ImageInputs :
       Len(calls) < MaxResponseCalls /\ WatchtowerCheckImageJpeg(jpeg)
  \/ StoreProgress(PolicyOutcomesOf(PolicyResponseBodies))
  \/ \E c \in 1..Len(calls) : TextRequest(c)
  \/ \E c \in 1..Len(calls) : ImageRequest(c)
  \/ \E c \in 1..Len(calls), o \in TextResponseOutcomes : TextSettles(c, o)
  \/ \E c \in 1..Len(calls), o \in ImageResponseOutcomes : ImageSettles(c, o)
  \/ \E c \in 1..Len(calls), o \in EventOutcomes : EventSettles(c, o)

ResponseSpec == Init /\ [][ResponseNext]_vars

\* Image checks beside direct refreshes, with telemetry off: a refresh may
\* replace the cached policy while an image request is in flight.
SnapshotNext ==
  \/ \E s \in RefreshSecondsChoices : WatchtowerInit(s, FALSE)
  \/ Len(calls) < MaxSnapshotCalls /\ WatchtowerRefreshPolicy
  \/ Len(calls) < MaxSnapshotCalls /\ WatchtowerCheckImageJpeg("Uint8Array")
  \/ StoreProgress(PolicyOutcomes)
  \/ \E c \in 1..Len(calls) : ImageRequest(c)
  \/ \E c \in 1..Len(calls), o \in ImageOutcomes : ImageSettles(c, o)

SnapshotSpec == Init /\ [][SnapshotNext]_vars

\* withTimeout on its own: deadlines are made, time passes, timers fire,
\* the signals given abort, cleanup is called.  A timer whose time has come
\* fires unless it is cleared first.
TimeoutNext ==
  \/ \E ms \in TimeoutMsChoices, s \in ExternalSignals : withTimeout(ms, s)
  \/ \E i \in 1..Len(timeouts) : TimePasses(i)
  \/ \E i \in 1..Len(timeouts) : DeadlineFires(i)
  \/ \E i \in 1..Len(timeouts) : ExternalAborts(i)
  \/ \E i \in 1..Len(timeouts) : cleanup(i)

TimeoutSpec ==
  /\ Init
  /\ [][TimeoutNext]_vars
  /\ WF_vars(\E i \in 1..Len(timeouts) : DeadlineFires(i))

\* ------------------------------------------------------------------ claims
CallIds == 1..Len(calls)
RefreshIds == 1..Len(refreshes)
\* The calls that await, or awaited, refresh promise r.
Callers(r) == {c \in CallIds : calls[c].ref = r}
\* Call c has been handed its policy.
HasPolicy(c) == calls[c].pc \in {"ready", "remote", "resolved"}
\* Call c asked for a refresh: a direct refreshPolicy, or a check that found
\* the policy stale.
AskedRefresh(c) == calls[c].kind = "refresh" \/ calls[c].stale
\* The refreshes whose policy request is outstanding.
Outstanding == {r \in RefreshIds : refreshes[r].state = "pending"}

\* C1: calls that ask for a refresh while a refresh promise is in flight
\* issue no policy request and share that promise: every refresh promise has
\* exactly one request, issued by the one call that made it, and all calls
\* that shared it are handed the same policy object, whether the request
\* succeeded or failed.
C1_SingleFlight ==
  /\ \A c \in CallIds :
       AskedRefresh(c) /\ calls[c].saw # 0 =>
         calls[c].ref = calls[c].saw /\ ~calls[c].creator
  /\ \A r \in RefreshIds :
       Cardinality({c \in Callers(r) : calls[c].creator}) = 1
  /\ sent.policy = Len(refreshes)
  /\ \A c, d \in CallIds :
       calls[c].ref # 0 /\ calls[c].ref = calls[d].ref
         /\ HasPolicy(c) /\ HasPolicy(d) =>
           calls[c].policy = calls[d].policy

\* Three calls shared one refresh whose request timed out, and each has
\* been handed its policy.
C1_Witness ==
  \E r \in RefreshIds :
    /\ refreshes[r].outcome = "timeout"
    /\ Cardinality({c \in Callers(r) : HasPolicy(c) /\ AskedRefresh(c)}) >= 3

\* C2: a check made when the policy's age is at most policyRefreshSeconds
\* * 1000 issues no policy request and is handed the cached policy.
C2_FreshServesCache ==
  [][ ( /\ client
        /\ Len(calls') = Len(calls) + 1
        /\ calls'[Len(calls')].kind # "refresh"
        /\ now - policyLastFetchMs <= config.policyRefreshSeconds * 1000 )
      => ( /\ sent'.policy = sent.policy
           /\ refreshes' = refreshes
           /\ calls'[Len(calls')].pc = "ready"
           /\ calls'[Len(calls')].policy = cachedPolicy ) ]_vars

\* A check was served from the cache at the very end of the freshness
\* window (age = policyRefreshSeconds * 1000 > 0).
C2_Witness ==
  \E c \in CallIds :
    /\ calls[c].kind = "text"
    /\ ~calls[c].stale
    /\ calls[c].pc = "ready"
    /\ calls[c].policy = cachedPolicy
    /\ config.policyRefreshSeconds > 0
    /\ now - policyLastFetchMs = config.policyRefreshSeconds * 1000

\* C3: the step in which a refresh fails (non-2xx, timeout, transport error,
\* unparseable body) leaves cachedPolicy and policyLastFetchMs as they were
\* when the refresh started, and the refresh resolves to that cached policy.
C3_FailedRefreshKeepsCache ==
  /\ [][ \A r \in RefreshIds :
        ( /\ refreshes[r].state = "pending"
          /\ refreshes'[r].state # "pending"
          /\ refreshes'[r].outcome \in
               {"non2xx", "timeout", "transport", "unparseable"} )
        => ( /\ cachedPolicy' = refreshes[r].before.policy
             /\ policyLastFetchMs' = refreshes[r].before.ms
             /\ refreshes'[r].state = "resolved"
             /\ refreshes'[r].value = refreshes[r].before.policy ) ]_vars
  /\ [](\A c \in CallIds :
         ( /\ calls[c].ref # 0
           /\ refreshes[calls[c].ref].outcome \in
                {"non2xx", "timeout", "transport", "unparseable"}
           /\ HasPolicy(c) )
         => calls[c].policy = refreshes[calls[c].ref].before.policy)

\* After one refresh replaced the policy, a later one got a non-2xx answer,
\* and a call was handed the replaced policy again.
C3_Witness ==
  \E r \in RefreshIds, c \in CallIds :
    /\ refreshes[r].outcome = "non2xx"
    /\ refreshes[r].before.policy.snap # 0
    /\ refreshes[r].before.ms # 0
    /\ calls[c].ref = r
    /\ HasPolicy(c)
    /\ calls[c].policy = refreshes[r].before.policy
    /\ cachedPolicy = refreshes[r].before.policy

\* C4: whenever the promise in the handle has settled, the handle is
\* eventually cleared; and a call that asks for a refresh with the handle
\* clear issues a policy request.
C4_NeverWedged ==
  /\ ( policyRefreshPromise # 0
         /\ refreshes[policyRefreshPromise].state # "pending" )
       ~> (policyRefreshPromise = 0)
  /\ [][ ( /\ policyRefreshPromise = 0
           /\ Len(calls') = Len(calls) + 1
           /\ ( calls'[Len(calls')].kind = "refresh"
                  \/ calls'[Len(calls')].stale ) )
         => sent'.policy = sent.policy + 1 ]_vars

\* A refresh timed out, its handle was cleared, and the next stale check
\* issued a second policy request, which got a remote error; the handle is
\* clear again.
C4_Witness ==
  /\ Len(refreshes) = 2
  /\ refreshes[1].outcome = "timeout"
  /\ refreshes[2].outcome = "non2xx"
  /\ calls[2].stale
  /\ calls[2].creator
  /\ policyRefreshPromise = 0
  /\ sent.policy = 2

\* C5: at most one policy request is outstanding, and it is the one the
\* handle holds; policyLastFetchMs changes only in the step in which a
\* policy request ends with a parsed 2xx response.
C5_OneInFlight ==
  /\ [](/\ Cardinality(Outstanding) <= 1
        /\ \A r \in Outstanding : policyRefreshPromise = r)
  /\ [][ policyLastFetchMs' # policyLastFetchMs =>
           \E r \in RefreshIds :
             /\ refreshes[r].state = "pending"
             /\ refreshes'[r].state = "resolved"
             /\ refreshes'[r].outcome = "ok" ]_vars

\* A second successful refresh has advanced policyLastFetchMs again while a
\* third request is outstanding.
C5_Witness ==
  /\ Len(refreshes) >= 3
  /\ refreshes[1].outcome = "ok"
  /\ refreshes[2].outcome = "ok"
  /\ refreshes[2].before.ms # 0
  /\ policyLastFetchMs > refreshes[2].before.ms
  /\ Outstanding = {3}

\* Call c has settled (its promise resolved or rejected).
IsSettled(c) == calls[c].pc \in {"resolved", "rejected"}

\* C6: a checkText whose classification request timed out, failed in
\* transport or got a non-2xx answer resolved to true.
C6_TextFailsOpen ==
  \A c \in CallIds :
    ( /\ calls[c].kind = "text"
      /\ calls[c].outcome \in {"timeout", "transport", "non2xx"} )
    => calls[c].pc = "resolved" /\ calls[c].text = JsBool(TRUE)

\* A checkText resolved after its policy refresh failed and its own request
\* timed out.
C6_Witness ==
  \E c \in CallIds :
    /\ calls[c].kind = "text"
    /\ calls[c].outcome = "timeout"
    /\ calls[c].pc = "resolved"
    /\ calls[c].ref # 0
    /\ refreshes[calls[c].ref].outcome = "transport"

\* C7: a checkImageJpeg whose request failed in transport or timed out
\* resolved to ALLOW, no score, reasons <<"sdk_network_error">>; one that got
\* a non-2xx answer to ALLOW, no score, reasons <<"cloud_unavailable">>; local
\* enforcement ran in neither.
C7_ImageFailsOpen ==
  \A c \in CallIds :
    /\ ( calls[c].kind = "image"
           /\ calls[c].outcome \in {"transport", "timeout"} )
       => ( /\ calls[c].pc = "resolved"
            /\ calls[c].image =
                 [decision |-> "ALLOW", nsfwScore |-> JsNull,
                  reasons |-> <<"sdk_network_error">>]
            /\ ~calls[c].enforced )
    /\ ( calls[c].kind = "image" /\ calls[c].outcome = "non2xx" )
       => ( /\ calls[c].pc = "resolved"
            /\ calls[c].image =
                 [decision |-> "ALLOW", nsfwScore |-> JsNull,
                  reasons |-> <<"cloud_unavailable">>]
            /\ ~calls[c].enforced )

\* A checkImageJpeg got a non-2xx answer while holding a policy that blocks.
C7_Witness ==
  \E c \in CallIds :
    /\ calls[c].kind = "image"
    /\ calls[c].outcome = "non2xx"
    /\ calls[c].pc = "resolved"
    /\ Truthy(calls[c].policy.blockNsfwImages)

\* Call c is a check whose input checkImageJpeg supports (checkText takes
\* any text).
SupportedCheck(c) ==
  \/ calls[c].kind = "text"
  \/ calls[c].kind = "image" /\ ~toUint8ArrayThrows(calls[c].input)

\* C8: every checkText, and every checkImageJpeg given a supported input,
\* eventually settles, and no call ever settles by rejecting.
C8_ChecksSettleByResolving ==
  /\ \A c \in 1..MaxCalls :
       (Len(calls) >= c /\ SupportedCheck(c))
         ~> (Len(calls) >= c /\ calls[c].pc = "resolved")
  /\ [](\A c \in CallIds : calls[c].pc # "rejected")

\* An image check resolved with telemetry enabled although its policy
\* request timed out and its own request failed in transport.
C8_Witness ==
  \E c \in CallIds :
    /\ calls[c].kind = "image"
    /\ config.sendEvents
    /\ calls[c].pc = "resolved"
    /\ calls[c].outcome = "transport"
    /\ calls[c].ref # 0
    /\ refreshes[calls[c].ref].outcome = "timeout"

\* C9: a checkImageJpeg given something that is no Blob, ArrayBuffer or
\* Uint8Array settles by rejecting, not by resolving to a result.
C9_UnsupportedInputRejects ==
  \A c \in CallIds :
    ( /\ calls[c].kind = "image"
      /\ toUint8ArrayThrows(calls[c].input)
      /\ IsSettled(c) )
    => calls[c].pc = "rejected"

\* C10: while the facade has no client, its methods only throw: no call is
\* started and no request is issued.
C10_UninitializedThrows ==
  /\ [](client = FALSE =>
          /\ calls = << >>
          /\ refreshes = << >>
          /\ sent = [policy |-> 0, text |-> 0, image |-> 0, events |-> 0])
  /\ [][ (client = FALSE /\ client' = FALSE) =>
           /\ raised' # {}
           /\ raised \subseteq raised'
           /\ calls' = calls
           /\ sent' = sent ]_vars

\* All three methods have thrown on a facade that has no client.
C10_Witness ==
  /\ client = FALSE
  /\ raised = {"refresh", "text", "image"}
  /\ calls = << >>

\* Call c is a checkImageJpeg that resolved after its endpoint answered 2xx
\* with a body that parsed.
ImageAnswered(c) ==
  /\ calls[c].kind = "image"
  /\ calls[c].pc = "resolved"
  /\ calls[c].outcome = "ok"
\* The reasons checkImageJpeg reads from a parsed body.
RemoteReasons(json) == IF json.reasons.isArray THEN json.reasons.items ELSE << >>

\* C11: when the image endpoint answered with a numeric nsfwScore, and the
\* policy the call holds has blockNsfwImages true and a threshold the score
\* reaches, the call resolved to BLOCK with the remote's reasons in their
\* order followed by "policy_nsfw", whatever the remote's decision.
C11_LocalEnforcementBlocks ==
  \A c \in CallIds :
    ( /\ ImageAnswered(c)
      /\ calls[c].imageJson.nsfwScore.t = "number"
      /\ calls[c].policy.blockNsfwImages = JsBool(TRUE)
      /\ calls[c].policy.nsfwThreshold.t = "number"
      /\ calls[c].imageJson.nsfwScore.n >= calls[c].policy.nsfwThreshold.n )
    => ( /\ calls[c].image.decision = "BLOCK"
         /\ calls[c].image.nsfwScore = calls[c].imageJson.nsfwScore
         /\ calls[c].image.reasons =
              RemoteReasons(calls[c].imageJson) \o <<"policy_nsfw">> )

\* The remote said ALLOW with two reasons and a score (0.9) equal to the
\* threshold of a refreshed policy; the call resolved to BLOCK.
C11_Witness ==
  \E c \in CallIds :
    /\ ImageAnswered(c)
    /\ calls[c].imageJson.decision = "ALLOW"
    /\ calls[c].imageJson.nsfwScore = JsNum(90)
    /\ calls[c].policy.nsfwThreshold = JsNum(90)
    /\ calls[c].policy.blockNsfwImages = JsBool(TRUE)
    /\ calls[c].image.decision = "BLOCK"
    /\ calls[c].image.reasons = <<"remote_a", "remote_b", "policy_nsfw">>

\* C12: when the image endpoint answered BLOCK, the call resolved to BLOCK,
\* for every score, threshold and blockNsfwImages of its policy.
C12_NeverUnblocks ==
  \A c \in CallIds :
    (ImageAnswered(c) /\ calls[c].imageJson.decision = "BLOCK")
    => calls[c].image.decision = "BLOCK"

\* The remote said BLOCK with a score below the threshold of a policy that
\* blocks, enforcement ran, and the call resolved to BLOCK with the remote's
\* reasons only.
C12_Witness ==
  \E c \in CallIds :
    /\ ImageAnswered(c)
    /\ calls[c].enforced
    /\ calls[c].imageJson.decision = "BLOCK"
    /\ calls[c].imageJson.nsfwScore = JsNum(10)
    /\ calls[c].policy.blockNsfwImages = JsBool(TRUE)
    /\ calls[c].image.decision = "BLOCK"
    /\ calls[c].image.reasons = <<"remote_a", "remote_b">>

\* C13: when the text endpoint answered 2xx with a body whose isTextPermitted
\* is missing or is not a boolean, checkText resolved to true.
C13_MalformedFlagPermits ==
  \A c \in CallIds :
    ( /\ calls[c].kind = "text"
      /\ calls[c].pc = "resolved"
      /\ calls[c].outcome = "ok"
      /\ calls[c].textJson.t # "boolean" )
    => calls[c].text = JsBool(TRUE)

\* C14: the result of a check is fixed when it resolves, which is no later
\* than the moment its telemetry request is issued, and no end of the
\* telemetry request (a response of any status, a transport error, the
\* deadline) and no wait for it changes the result.
C14_TelemetryLeavesResult ==
  /\ [](\A c \in CallIds : calls[c].tele # "none" => calls[c].pc = "resolved")
  /\ [][ \A c \in CallIds :
           calls[c].pc = "resolved"
           => ( /\ calls'[c].pc = "resolved"
                /\ calls'[c].text = calls[c].text
                /\ calls'[c].image = calls[c].image ) ]_vars

\* A check resolved to a refusal (checkText to false, or checkImageJpeg to
\* BLOCK) and its telemetry request has ended since.
C14_Witness ==
  \E c \in CallIds :
    /\ calls[c].pc = "resolved"
    /\ calls[c].tele = "settled"
    /\ calls[c].teleTimer = "released"
    /\ \/ calls[c].kind = "text" /\ calls[c].text = JsBool(FALSE)
       \/ calls[c].kind = "image" /\ calls[c].image.decision = "BLOCK"

\* The decision a resolved check made.
DecisionOf(c) ==
  IF calls[c].kind = "image" THEN calls[c].image.decision
  ELSE IF Truthy(calls[c].text) THEN "ALLOW" ELSE "BLOCK"

\* C15: with sendEvents enabled, every check that resolved has had a
\* request to /v1/events issued for it that carries its decision.
C15_DecisionsAreReported ==
  \A c \in CallIds :
    ( /\ config.sendEvents
      /\ calls[c].kind \in {"text", "image"}
      /\ calls[c].pc = "resolved" )
    => ( /\ calls[c].tele # "none"
         /\ calls[c].teleDecision = DecisionOf(c) )

\* C16: every result checkImageJpeg resolved to has decision ALLOW or BLOCK.
C16_DecisionIsAllowOrBlock ==
  \A c \in CallIds :
    (calls[c].kind = "image" /\ calls[c].pc = "resolved")
    => calls[c].image.decision \in {"ALLOW", "BLOCK"}

\* C17: the cached policy has three boolean flags and three thresholds that
\* are numbers in [0, 1].
C17_CachedPolicyWellFormed ==
  /\ \A f \in {"blockToxicity", "blockSexual", "blockNsfwImages"} :
       cachedPolicy[f].t = "boolean"
  /\ \A f \in {"toxicityThreshold", "sexualThreshold", "nsfwThreshold"} :
       /\ cachedPolicy[f].t = "number"
       /\ cachedPolicy[f].n >= 0
       /\ cachedPolicy[f].n <= 100

\* C18: a checkImageJpeg whose endpoint answered with a non-2xx status, or
\* with 2xx and a body that does not parse, resolved to ALLOW with reasons
\* <<"cloud_unavailable">>.
C18_RemoteErrorIsCloudUnavailable ==
  \A c \in CallIds :
    ( /\ calls[c].kind = "image"
      /\ calls[c].outcome \in {"non2xx", "unparseable"} )
    => ( /\ calls[c].pc = "resolved"
         /\ calls[c].image.decision = "ALLOW"
         /\ calls[c].image.reasons = <<"cloud_unavailable">> )

\* Call c is a check that awaits, or awaited, a policy refresh that failed.
RefreshFailedFor(c) ==
  /\ calls[c].kind \in {"text", "image"}
  /\ calls[c].ref # 0
  /\ refreshes[calls[c].ref].outcome \in
       {"transport", "timeout", "non2xx", "unparseable"}

\* C19: a check whose policy refresh failed is not settled by that failure:
\* it goes on with the policy cached before the refresh, it settles only
\* after its own classification request has been issued and has ended, never
\* by rejecting, and what it resolves to is what that request's answer and
\* that policy give.
C19_RefreshFailureDoesNotAbort ==
  \A c \in CallIds :
    (RefreshFailedFor(c) /\ SupportedCheck(c)) =>
      /\ calls[c].outcome # "policy"
      /\ calls[c].pc # "rejected"
      /\ HasPolicy(c) =>
           calls[c].policy = refreshes[calls[c].ref].before.policy
      /\ calls[c].pc = "resolved" =>
           /\ calls[c].timer \in {"cleared", "fired"}
           /\ calls[c].outcome \in
                {"ok", "transport", "timeout", "non2xx", "unparseable"}
      /\ (calls[c].pc = "resolved" /\ calls[c].outcome = "ok"
            /\ calls[c].kind = "text") =>
           calls[c].text =
             (IF calls[c].textJson.t \in {"undefined", "null"}
              THEN JsBool(TRUE) ELSE calls[c].textJson)
      /\ (calls[c].pc = "resolved" /\ calls[c].outcome = "ok"
            /\ calls[c].kind = "image") =>
           LET before == refreshes[calls[c].ref].before.policy
               score == calls[c].imageJson.nsfwScore
               forced == /\ Truthy(before.blockNsfwImages)
                         /\ score.t = "number"
                         /\ before.nsfwThreshold.t = "number"
                         /\ score.n >= before.nsfwThreshold.n
           IN calls[c].image.decision =
                (IF forced THEN "BLOCK"
                 ELSE IF calls[c].imageJson.decision = "" THEN "ALLOW"
                 ELSE calls[c].imageJson.decision)

\* A checkImageJpeg whose policy refresh got a non-2xx answer went on, got
\* ALLOW with a score above the default threshold from the image endpoint,
\* and resolved to BLOCK under the default policy.
C19_Witness ==
  \E c \in CallIds :
    /\ calls[c].kind = "image"
    /\ RefreshFailedFor(c)
    /\ refreshes[calls[c].ref].outcome = "non2xx"
    /\ calls[c].pc = "resolved"
    /\ calls[c].outcome = "ok"
    /\ calls[c].imageJson.decision = "ALLOW"
    /\ calls[c].imageJson.nsfwScore = JsNum(90)
    /\ calls[c].policy = DEFAULT_POLICY
    /\ calls[c].image.decision = "BLOCK"

\* The checks of a kind that have issued their classification request.
Requested(kind) ==
  {c \in CallIds : calls[c].kind = kind /\ calls[c].timer # "none"}

\* C20: nothing is retried.  The requests issued are one per call at most:
\* one classification request per check that has issued its request, one
\* policy request per call that made a refresh promise, one telemetry
\* request per check that emitted; a check that failed open emitted none.
\* A classification or telemetry request that has ended is never pending
\* again, and a call that has settled stays as it settled and starts no
\* request (only its telemetry request, issued when it resolved, may still
\* end).
C20_NoRetry ==
  /\ [](/\ sent.text = Cardinality(Requested("text"))
        /\ sent.image = Cardinality(Requested("image"))
        /\ sent.policy = Cardinality({c \in CallIds : calls[c].creator})
        /\ sent.events = Cardinality({c \in CallIds : calls[c].tele # "none"})
        /\ \A c \in CallIds :
             /\ calls[c].outcome # "none" => calls[c].timer # "pending"
             /\ (calls[c].kind \in {"text", "image"}
                  /\ calls[c].pc = "resolved"
                  /\ calls[c].outcome # "ok") => calls[c].tele = "none")
  /\ [][ \A c \in CallIds :
           /\ calls[c].timer \in {"cleared", "fired"}
                => calls'[c].timer = calls[c].timer
           /\ calls[c].tele = "settled" => calls'[c].tele = "settled"
           /\ calls[c].ref # 0 => calls'[c].ref = calls[c].ref
           /\ IsSettled(c) =>
                /\ calls'[c].pc = calls[c].pc
                /\ calls'[c].timer = calls[c].timer
                /\ calls'[c].ref = calls[c].ref
                /\ calls'[c].creator = calls[c].creator
                /\ calls[c].tele = "none" => calls'[c].tele = "none" ]_vars

\* A checkText ran into a failed policy refresh and a timed-out
\* classification request, failed open, and exactly one request went to
\* each of the two endpoints and none to /v1/events.
C20_Witness ==
  \E c \in CallIds :
    /\ calls[c].kind = "text"
    /\ calls[c].creator
    /\ refreshes[calls[c].ref].outcome = "transport"
    /\ calls[c].outcome = "timeout"
    /\ calls[c].pc = "resolved"
    /\ config.sendEvents
    /\ sent = [policy |-> 1, text |-> 1, image |-> 0, events |-> 0]

\* C21: the deadline timer of a network attempt that has finished is not
\* pending: that of a policy request whose promise has settled, that of a
\* classification request that has ended, that of a telemetry request that
\* has ended.
C21_TimersReleased ==
  /\ \A r \in RefreshIds :
       refreshes[r].state # "pending" => refreshes[r].timer # "pending"
  /\ \A c \in CallIds :
       /\ calls[c].outcome \in
            {"ok", "transport", "timeout", "non2xx", "unparseable"}
          => calls[c].timer \in {"cleared", "fired"}
       /\ IsSettled(c) => calls[c].timer # "pending"
       /\ calls[c].tele = "settled" => calls[c].teleTimer # "pending"

\* A check has finished all three of its attempts: its policy request
\* failed in transport, its classification request was answered, and its
\* telemetry request has ended; none of the three timers is pending.
C21_Witness ==
  \E c \in CallIds :
    /\ calls[c].ref # 0
    /\ refreshes[calls[c].ref].outcome = "transport"
    /\ refreshes[calls[c].ref].timer = "cleared"
    /\ calls[c].outcome = "ok"
    /\ calls[c].timer = "cleared"
    /\ calls[c].tele = "settled"
    /\ calls[c].teleTimer = "released"

\* C22: a check does not wait for its telemetry.  The step that processes
\* the classification response resolves the check, whether or not it issues
\* a telemetry request; the request it issues is pending when the check
\* has resolved, and no step of a check waits on telemetry (the only step
\* taken while telemetry is pending is the end of the telemetry request
\* itself, on a check that has resolved already).
C22_ChecksDoNotAwaitTelemetry ==
  [][ \A c \in CallIds :
        /\ (calls[c].pc = "remote" /\ calls'[c] # calls[c])
             => calls'[c].pc = "resolved"
        /\ (calls[c].tele = "none" /\ calls'[c].tele # "none")
             => ( /\ calls[c].pc = "remote"
                  /\ calls'[c].pc = "resolved"
                  /\ calls'[c].tele = "pending" )
        /\ (calls[c].tele = "pending" /\ calls'[c] # calls[c])
             => calls[c].pc = "resolved" ]_vars

\* A checkImageJpeg has resolved to BLOCK while the telemetry request it
\* issued is still pending.
C22_Witness ==
  \E c \in CallIds :
    /\ calls[c].pc = "resolved"
    /\ calls[c].tele = "pending"
    /\ calls[c].teleTimer = "pending"
    /\ calls[c].kind = "image"
    /\ calls[c].image.decision = "BLOCK"

PolicyFlags == {"blockToxicity", "blockSexual", "blockNsfwImages"}
PolicyThresholds == {"toxicityThreshold", "sexualThreshold", "nsfwThreshold"}

\* C24: after a refresh whose policy response is an HTTP success, the value
\* the refresh resolved to is a new snapshot equal to the response with
\* every missing boolean true and every missing threshold 0.85.
C24_SnapshotEqualsResponse ==
  \A r \in RefreshIds :
    refreshes[r].outcome = "ok" =>
      /\ refreshes[r].value.snap = r
      /\ \A f \in PolicyFlags :
           refreshes[r].value[f] =
             (IF refreshes[r].json[f] = JsUndefined THEN JsBool(TRUE)
              ELSE refreshes[r].json[f])
      /\ \A f \in PolicyThresholds :
           refreshes[r].value[f] =
             (IF refreshes[r].json[f] = JsUndefined THEN JsNum(85)
              ELSE refreshes[r].json[f])

\* A flag of a response as the amended claim reads it: true where it is
\* missing or null.
FlagRead(x) == IF x.t \in {"undefined", "null"} THEN JsBool(TRUE) ELSE x
\* A threshold likewise: 0.85 where it is missing or null, else the number
\* JavaScript converts the value to (true is 1, false is 0, a string that
\* is no number is NaN).
ThresholdRead(x) ==
  CASE x.t \in {"undefined", "null"} -> JsNum(85)
    [] x.t = "number" -> x
    [] x.t = "boolean" -> JsNum(IF x.b THEN 100 ELSE 0)
    [] OTHER -> JsNaN

\* C24 (amended): the step in which a policy request ends with a 2xx
\* response whose body parses makes the cached policy a new snapshot, every
\* flag read as above and every threshold converted as above, sets
\* policyLastFetchMs to the time of that step, and resolves the refresh to
\* that same snapshot; every caller of the refresh is handed it.
C24_SnapshotCoercesResponse ==
  /\ [][ \A r \in RefreshIds :
           ( /\ refreshes[r].state = "pending"
             /\ refreshes'[r].state # "pending"
             /\ refreshes'[r].outcome = "ok" )
           => ( /\ refreshes'[r].state = "resolved"
                /\ cachedPolicy' = refreshes'[r].value
                /\ cachedPolicy'.snap = r
                /\ cachedPolicy'.snap # cachedPolicy.snap
                /\ policyLastFetchMs' = now
                /\ \A f \in PolicyFlags :
                     cachedPolicy'[f] = FlagRead(refreshes'[r].json[f])
                /\ \A f \in PolicyThresholds :
                     cachedPolicy'[f] = ThresholdRead(refreshes'[r].json[f]) )
     ]_vars
  /\ [](\A c \in CallIds :
         ( /\ calls[c].ref # 0
           /\ refreshes[calls[c].ref].outcome = "ok"
           /\ HasPolicy(c) )
         => calls[c].policy = refreshes[calls[c].ref].value)

\* A check was handed the snapshot of a refresh whose response had only
\* nsfwThreshold (0.9): the flags are true and the other thresholds 0.85;
\* it is the cached policy, fetched at the current time.
C24_Witness ==
  \E c \in CallIds :
    /\ calls[c].ref # 0
    /\ refreshes[calls[c].ref].outcome = "ok"
    /\ refreshes[calls[c].ref].json.blockNsfwImages = JsUndefined
    /\ HasPolicy(c)
    /\ calls[c].policy = cachedPolicy
    /\ cachedPolicy.snap = calls[c].ref
    /\ cachedPolicy.blockNsfwImages = JsBool(TRUE)
    /\ cachedPolicy.sexualThreshold = JsNum(85)
    /\ cachedPolicy.nsfwThreshold = JsNum(90)
    /\ policyLastFetchMs = now

TimeoutIds == 1..Len(timeouts)

\* C25: the signal of withTimeout(ms, external)
\*  - is canceled once ms has elapsed and cleanup has not been called: the
\*    timer fires no earlier than ms, a timer that fired has canceled the
\*    signal, and a deadline that has elapsed leads to a canceled signal
\*    unless cleanup is called first;
\*  - is canceled on return exactly when external was canceled already;
\*  - becomes canceled in the step in which external cancels later;
\*  - is not canceled by the deadline once cleanup has been called: from
\*    then on only external cancels it.
C25_TimeoutSignal ==
  /\ [](\A i \in TimeoutIds :
         /\ timeouts[i].timer = "fired" =>
              timeouts[i].aborted /\ timeouts[i].elapsed >= timeouts[i].ms
         /\ timeouts[i].reason = "timeout" =>
              timeouts[i].elapsed >= timeouts[i].ms)
  /\ \A i \in 1..MaxTimeouts :
       ( /\ Len(timeouts) >= i
         /\ timeouts[i].elapsed >= timeouts[i].ms
         /\ ~timeouts[i].cleaned )
       ~> ( /\ Len(timeouts) >= i
            /\ timeouts[i].aborted \/ timeouts[i].cleaned )
  /\ [][ Len(timeouts') = Len(timeouts) + 1 =>
           ( timeouts'[Len(timeouts')].aborted
               <=> timeouts'[Len(timeouts')].external = "aborted" ) ]_vars
  /\ [][ \A i \in TimeoutIds :
           /\ ( timeouts[i].external = "live"
                  /\ timeouts'[i].external = "aborted" )
                => timeouts'[i].aborted
           /\ ( timeouts[i].cleaned /\ ~timeouts[i].aborted
                  /\ timeouts'[i].aborted )
                => ( /\ timeouts[i].external = "live"
                     /\ timeouts'[i].external = "aborted"
                     /\ timeouts'[i].reason = "external" )
           /\ ( timeouts[i].cleaned /\ timeouts[i].timer # "fired" )
                => timeouts'[i].timer # "fired" ]_vars

\* One deadline was cleaned up in time, outlived its ms uncanceled and was
\* then canceled by its external signal; another, made with a signal that
\* was canceled already, was canceled on return.
C25_Witness ==
  \E i, j \in TimeoutIds :
    /\ timeouts[i].cleaned
    /\ timeouts[i].timer = "cleared"
    /\ timeouts[i].elapsed >= timeouts[i].ms
    /\ timeouts[i].aborted
    /\ timeouts[i].reason = "external"
    /\ timeouts[j].external = "aborted"
    /\ timeouts[j].reason = "external"
    /\ timeouts[j].elapsed = 0
    /\ timeouts[j].timer = "pending"

\* C26: the policy a check was handed when it started (the cached one if
\* fresh, else the one its refresh resolved to) stays with the call
\* whatever happens to the cache, and the decision of a checkImageJpeg
\* whose endpoint answered is the one local enforcement gives under that
\* policy.
C26_EnforcesOwnSnapshot ==
  /\ [][ /\ \A c \in CallIds :
             HasPolicy(c) => calls'[c].policy = calls[c].policy
         /\ ( /\ Len(calls') = Len(calls) + 1
              /\ calls'[Len(calls')].pc = "ready" )
            => calls'[Len(calls')].policy = cachedPolicy ]_vars
  /\ [](\A c \in CallIds :
         /\ (HasPolicy(c) /\ calls[c].ref # 0)
              => calls[c].policy = refreshes[calls[c].ref].value
         /\ ImageAnswered(c) =>
              LET own == calls[c].policy
                  score == calls[c].imageJson.nsfwScore
                  forced == /\ Truthy(own.blockNsfwImages)
                            /\ score.t = "number"
                            /\ own.nsfwThreshold.t = "number"
                            /\ score.n >= own.nsfwThreshold.n
              IN /\ calls[c].image.decision =
                      (IF forced THEN "BLOCK"
                       ELSE IF calls[c].imageJson.decision = "" THEN "ALLOW"
                       ELSE calls[c].imageJson.decision)
                 /\ calls[c].image.reasons =
                      (IF forced
                       THEN RemoteReasons(calls[c].imageJson) \o <<"policy_nsfw">>
                       ELSE RemoteReasons(calls[c].imageJson)))

\* A checkImageJpeg took the default policy from the cache; while its
\* request was in flight another call's refresh replaced the cached policy
\* by one that does not block; the remote then said ALLOW at 0.9 and the
\* check resolved to BLOCK, as the policy it holds says and the cached one
\* does not.
C26_Witness ==
  \E c \in CallIds :
    /\ ImageAnswered(c)
    /\ calls[c].ref = 0
    /\ calls[c].policy = DEFAULT_POLICY
    /\ cachedPolicy.snap # 0
    /\ cachedPolicy.blockNsfwImages = JsBool(FALSE)
    /\ calls[c].imageJson.decision = "ALLOW"
    /\ calls[c].imageJson.nsfwScore = JsNum(90)
    /\ calls[c].image.decision = "BLOCK"

\* No policy request of the client has succeeded so far.
NoRefreshSucceeded == \A r \in RefreshIds : refreshes[r].outcome # "ok"

\* C27: while no policy request has succeeded, every policy a check holds
\* is the default one (the three flags true, the three thresholds 0.85),
\* and a checkImageJpeg whose endpoint answered with a numeric score of
\* 0.85 or more resolved to BLOCK with "policy_nsfw" as its last reason.
C27_DefaultPolicyUntilRefreshed ==
  NoRefreshSucceeded =>
    \A c \in CallIds :
      /\ (calls[c].kind \in {"text", "image"} /\ HasPolicy(c)) =>
           /\ \A f \in PolicyFlags : calls[c].policy[f] = JsBool(TRUE)
           /\ \A f \in PolicyThresholds : calls[c].policy[f] = JsNum(85)
      /\ ( /\ ImageAnswered(c)
           /\ calls[c].imageJson.nsfwScore.t = "number"
           /\ calls[c].imageJson.nsfwScore.n >= 85 ) =>
           /\ calls[c].image.decision = "BLOCK"
           /\ calls[c].image.reasons # << >>
           /\ calls[c].image.reasons[Len(calls[c].image.reasons)] = "policy_nsfw"

\* The policy request of an image check timed out; the image endpoint said
\* ALLOW at 0.9 and the check resolved to BLOCK with "policy_nsfw".
C27_Witness ==
  \E c \in CallIds :
    /\ NoRefreshSucceeded
    /\ calls[c].creator
    /\ refreshes[calls[c].ref].outcome = "timeout"
    /\ ImageAnswered(c)
    /\ calls[c].imageJson.decision = "ALLOW"
    /\ calls[c].imageJson.nsfwScore = JsNum(90)
    /\ calls[c].image =
         [decision |-> "BLOCK", nsfwScore |-> JsNum(90),
          reasons |-> <<"policy_nsfw">>]

\* C28: the handle is set in every state where a policy request is
\* outstanding, and it holds that request's promise.  The handle is given
\* up only by being cleared, only in the step in which the call that made
\* its promise resumes, and only once that promise has settled; a call that
\* shared the promise leaves the handle as it is when it resumes.
C28_OnlyCreatorClears ==
  /\ [](\A r \in RefreshIds :
         refreshes[r].state = "pending" => policyRefreshPromise = r)
  /\ [][ /\ ( policyRefreshPromise # 0
                /\ policyRefreshPromise' # policyRefreshPromise )
              => ( /\ policyRefreshPromise' = 0
                   /\ refreshes[policyRefreshPromise].state # "pending"
                   /\ \E c \in CallIds :
                        /\ calls[c].creator
                        /\ calls[c].ref = policyRefreshPromise
                        /\ calls[c].pc = "policy"
                        /\ calls'[c].pc # "policy" )
         /\ \A c \in CallIds :
              (calls[c].pc = "policy" /\ calls'[c].pc # "policy") =>
                IF calls[c].creator
                THEN policyRefreshPromise = calls[c].ref
                ELSE policyRefreshPromise' = policyRefreshPromise ]_vars

\* Two calls that shared a settled promise have resumed while the call
\* that made it has not: the handle still holds the promise.
C28_Witness ==
  \E r \in RefreshIds :
    /\ policyRefreshPromise = r
    /\ refreshes[r].state = "resolved"
    /\ Cardinality({c \in Callers(r) : ~calls[c].creator /\ HasPolicy(c)}) = 2
    /\ \E c \in Callers(r) : calls[c].creator /\ calls[c].pc = "policy"

====
